---- MODULE Spec2Model ----
(***************************************************************************)
(* The forward / backward orchestrators of the tile rasterizer            *)
(* (cuda_rasterizer/rasterizer_impl.cu): arena carving, instance           *)
(* expansion, key sort, tile range resolution and the two call sequences.  *)
(* Device kernels are sets of threads that run in any order; one action    *)
(* is one thread body.  Host steps are one action each.                    *)
(***************************************************************************)
EXTENDS Integers, Sequences, FiniteSets, TLC

(* ------------------------------ bounds -------------------------------- *)
\* most primitives handed to forward
MaxP == 2
\* most tile columns / rows of the render grid
MaxGrid == 2
\* largest value an out-of-buffer read of point_offsets is taken to yield
MaxGarbage == 2
\* most backward calls replayed against one forward
MaxBackward == 2

(* ------------------------- program constants -------------------------- *)
BLOCK_X == 16
BLOCK_Y == 16
\* alignment every fromChunk passes to obtain
ALIGNMENT == 128

(* --------------------------- input domains ---------------------------- *)
\* image widths: exact multiples of the tile width
Widths == { BLOCK_X * g : g \in 1..MaxGrid }
\* image heights: one pixel into the last tile row
Heights == { BLOCK_Y * (g - 1) + 1 : g \in 1..MaxGrid }
\* (NUM_CHANNELS of the build, colors_precomp != nullptr)
Configs == { <<3, FALSE>>, <<4, FALSE>>, <<4, TRUE>> }
\* screen positions the projection stage may report (pixels)
Points == { [x |-> 8, y |-> 8], [x |-> 16, y |-> 8], [x |-> 24, y |-> 24] }
\* depths the projection stage may report: 1.0f, 2.0f, -1.0f
Floats == { [neg |-> FALSE, mag |-> 1], [neg |-> FALSE, mag |-> 2],
            [neg |-> TRUE, mag |-> 1] }
\* per-pixel loss gradients handed to backward
PixelGrads == { 1, 2 }

(* ------------------------------ helpers ------------------------------- *)
Min(a, b) == IF a < b THEN a ELSE b
Max(a, b) == IF a > b THEN a ELSE b

\* an unsigned 32-bit number as (bit 31, bits 30..0)
Word32(i) == [sgn |-> 0, low |-> i]

\* n >> k on an unsigned 32-bit n, for the shifts 1..31 that getHigherMsb makes
Shr(n, k) ==
    IF k = 31 THEN n.sgn
    ELSE (IF n.sgn = 1 THEN 2 ^ (31 - k) ELSE 0) + n.low \div (2 ^ k)

\* C integer division truncates toward zero
CDiv(a, b) == IF a >= 0 THEN a \div b ELSE -((-a) \div b)

\* variant: the loop without the closing test of n >> msb
RECURSIVE MsbLoopUnclosed(_, _, _)
MsbLoopUnclosed(n, msb, step) ==
    IF step > 1
    THEN LET s == step \div 2
         IN  IF Shr(n, msb) # 0 THEN MsbLoopUnclosed(n, msb + s, s)
                                ELSE MsbLoopUnclosed(n, msb - s, s)
    ELSE msb

\* the while loop of getHigherMsb and the test that follows it
RECURSIVE MsbLoop(_, _, _)
MsbLoop(n, msb, step) ==
    IF step > 1
    THEN LET s == step \div 2
         IN  IF Shr(n, msb) # 0 THEN MsbLoop(n, msb + s, s)
                                ELSE MsbLoop(n, msb - s, s)
    ELSE IF Shr(n, msb) # 0 THEN msb + 1 ELSE msb

\* uint32_t msb = sizeof(n) * 4; uint32_t step = msb; ...; return msb
getHigherMsb(n) == MsbLoop(n, 16, 16)

(* ---------------------------- packed arena ---------------------------- *)
\* next multiple of a at or after n
AlignUp(n, a) == ((n + a - 1) \div a) * a

\* obtain(chunk, ptr, count, alignment) for an element of elemSize bytes
Obtain(chunk, count, elemSize, alignment) ==
    LET ptr == AlignUp(chunk, alignment)
    IN  [ptr |-> ptr, size |-> count * elemSize, chunk |-> ptr + count * elemSize]

\* carve the reservations reqs = << <<count, elemSize, alignment>>, ... >> in order
RECURSIVE Carve(_, _)
Carve(chunk, reqs) ==
    IF reqs = << >>
    THEN [subs |-> << >>, chunk |-> chunk]
    ELSE LET o    == Obtain(chunk, reqs[1][1], reqs[1][2], reqs[1][3])
             rest == Carve(o.chunk, Tail(reqs))
         IN  [subs |-> <<[ptr |-> o.ptr, size |-> o.size]>> \o rest.subs,
              chunk |-> rest.chunk]

\* temporary storage the scan asks for, a function of the item count alone
ScanSize(n) == 1 + 4 * ((n + 127) \div 128)
\* temporary storage the radix sort asks for, a function of the item count alone
SortingSize(n) == 1 + 24 * n

GeometryReqs(n) ==
    << <<n, 4, ALIGNMENT>>,            \* depths
       <<n * 3, 1, ALIGNMENT>>,        \* clamped
       <<n, 4, ALIGNMENT>>,            \* internal_radii
       <<n, 8, ALIGNMENT>>,            \* means2D
       <<n * 6, 4, ALIGNMENT>>,        \* cov3D
       <<n, 16, ALIGNMENT>>,           \* conic_opacity
       <<n * 3, 4, ALIGNMENT>>,        \* rgb
       <<n, 4, ALIGNMENT>>,            \* tiles_touched
       <<ScanSize(n), 1, ALIGNMENT>>,  \* scanning_space
       <<n, 4, ALIGNMENT>> >>          \* point_offsets

\* variant: the range table carved with the size of one unsigned, not a uint2
ImageReqsNarrowRanges(n) ==
    << <<n, 4, ALIGNMENT>>, <<n, 4, ALIGNMENT>>, <<n, 4, ALIGNMENT>> >>

ImageReqs(n) ==
    << <<n, 4, ALIGNMENT>>,            \* accum_alpha
       <<n, 4, ALIGNMENT>>,            \* n_contrib
       <<n, 8, ALIGNMENT>> >>          \* ranges

\* variant: the key buffers carved on their element size, not on ALIGNMENT
BinningReqsElementAligned(n) ==
    << <<n, 4, 4>>, <<n, 4, 4>>, <<n, 8, 8>>, <<n, 8, 8>>,
       <<SortingSize(n), 1, ALIGNMENT>> >>

BinningReqs(n) ==
    << <<n, 4, ALIGNMENT>>,            \* point_list
       <<n, 4, ALIGNMENT>>,            \* point_list_unsorted
       <<n, 8, ALIGNMENT>>,            \* point_list_keys
       <<n, 8, ALIGNMENT>>,            \* point_list_keys_unsorted
       <<SortingSize(n), 1, ALIGNMENT>> >>  \* list_sorting_space

GeometryFromChunk(chunk, n) == Carve(chunk, GeometryReqs(n))
ImageFromChunk(chunk, n)    == Carve(chunk, ImageReqs(n))
BinningFromChunk(chunk, n)  == Carve(chunk, BinningReqs(n))

\* required<T>(n): the dry run carves from the null cursor and reports its end
RequiredGeometry(n) == GeometryFromChunk(0, n).chunk
RequiredImage(n)    == ImageFromChunk(0, n).chunk
RequiredBinning(n)  == BinningFromChunk(0, n).chunk

(* ------------------------- keys and the sort -------------------------- *)
\* the bit pattern of a float, as (bit 31, bits 30..0): *((uint32_t*)&f)
FloatBits(f) ==
    [sgn |-> IF f.neg THEN 1 ELSE 0,
     low |-> IF f.mag = 1 THEN 1065353216 ELSE 1073741824]

\* the numeric value of a float of the domain
FloatValue(f) == IF f.neg THEN -f.mag ELSE f.mag

\* a 64-bit key as (bits 63..32, bit 31, bits 30..0)
\* uint64_t key = (a 32-bit unsigned value): the value in the low half
Widen64(t) == [tile |-> 0, sgn |-> 0, low |-> t]

\* key <<= 32: the low half moves to the high half, the old high half is lost
Shl32(key) == [tile |-> key.low + key.sgn * 2 ^ 30 * 2, sgn |-> 0, low |-> 0]

\* a | b on numbers below 2^31
RECURSIVE BitOr(_, _)
BitOr(a, b) ==
    IF a = 0 THEN b
    ELSE IF b = 0 THEN a
    ELSE Max(a % 2, b % 2) + 2 * BitOr(a \div 2, b \div 2)

\* key |= bits, for a 32-bit pattern bits
Or32(key, bits) ==
    [tile |-> key.tile, sgn |-> Max(key.sgn, bits.sgn),
     low |-> BitOr(key.low, bits.low)]

\* variant: the tile index is not shifted to the high half
PackKeyUnshifted(tile, bits) == Or32(Widen64(tile), bits)

\* key = tile; key <<= 32; key |= *((uint32_t*)&depths[idx])
PackKey(tile, bits) == Or32(Shl32(Widen64(tile)), bits)

\* key >> 32
TileOf(key) == key.tile

\* content of a buffer element nothing has written yet
UninitKey == [tile |-> -1, sgn |-> 0, low |-> 0]
UninitRange == [x |-> -1, y |-> -1]

\* the bits [0, end_bit) of a key, end_bit >= 32
KeyBits(key, end_bit) ==
    [tile |-> key.tile % (2 ^ (end_bit - 32)), sgn |-> key.sgn, low |-> key.low]

\* unsigned comparison a <= b of two keys
KeyLeq(a, b) ==
    \/ a.tile < b.tile
    \/ a.tile = b.tile /\ a.sgn < b.sgn
    \/ a.tile = b.tile /\ a.sgn = b.sgn /\ a.low <= b.low

\* one pair put after every pair of the sorted run whose key bits are not larger
RECURSIVE InsertPair(_, _, _)
InsertPair(run, pair, end_bit) ==
    IF run = << >> THEN << pair >>
    ELSE IF KeyLeq(KeyBits(run[1].key, end_bit), KeyBits(pair.key, end_bit))
         THEN << run[1] >> \o InsertPair(Tail(run), pair, end_bit)
         ELSE << pair >> \o run

\* SortPairs(keys_in, keys_out, values_in, values_out, num_items, 0, end_bit):
\* ascending on the key bits [0, end_bit), equal keys keep their order
RECURSIVE SortPairs(_, _)
SortPairs(pairs, end_bit) ==
    IF pairs = << >> THEN << >>
    ELSE InsertPair(SortPairs(SubSeq(pairs, 1, Len(pairs) - 1), end_bit),
                    pairs[Len(pairs)], end_bit)

(* ------------------------------ the grid ------------------------------ *)
\* dim3 tile_grid((width + BLOCK_X - 1) / BLOCK_X, (height + BLOCK_Y - 1) / BLOCK_Y, 1)
TileGrid(w, h) ==
    [x |-> (w + BLOCK_X - 1) \div BLOCK_X, y |-> (h + BLOCK_Y - 1) \div BLOCK_Y]

\* getRect(p, max_radius, rect_min, rect_max, grid): the tile rectangle of the
\* screen bounding box, clamped to the grid
GetRect(p, max_radius, grid) ==
    [min |-> [x |-> Min(grid.x, Max(0, CDiv(p.x - max_radius, BLOCK_X))),
              y |-> Min(grid.y, Max(0, CDiv(p.y - max_radius, BLOCK_Y)))],
     max |-> [x |-> Min(grid.x, Max(0, CDiv(p.x + max_radius + BLOCK_X - 1, BLOCK_X))),
              y |-> Min(grid.y, Max(0, CDiv(p.y + max_radius + BLOCK_Y - 1, BLOCK_Y)))]]

RectArea(r) == (r.max.x - r.min.x) * (r.max.y - r.min.y)

\* inclusive prefix sum, [2, 3, 0, 2, 1] -> [2, 5, 5, 7, 8]
RECURSIVE SumTo(_, _)
SumTo(f, i) == IF i < 0 THEN 0 ELSE f[i] + SumTo(f, i - 1)
InclusiveSum(f, n) == [i \in 0..(n - 1) |-> SumTo(f, i)]

(* ------------------------------- state -------------------------------- *)
VARIABLES
    pc,            \* where the forward call stands
    P,             \* number of primitives
    width, height, \* image size in pixels
    config,        \* <<NUM_CHANNELS, colors_precomp != nullptr>>
    geomState,     \* GeometryState view: [size, subs]
    imgState,      \* ImageState view
    binningState,  \* BinningState view
    radii, means2D, depths, tiles_touched,  \* written by the projection stage
    point_offsets, \* inclusive prefix sum of tiles_touched
    num_rendered,  \* the value read back from point_offsets + P - 1
    point_list_keys_unsorted, point_list_unsorted,  \* instance buffers
    written,       \* per slot of the unsorted buffers: how often it was written
    strayWrites,   \* slots outside the unsorted buffers that were written
    dupDone,       \* duplicateWithKeys threads that have run
    point_list_keys, point_list,  \* the sorted instance list
    ranges,        \* the tile range table, entries [0, tiles)
    strayRanges,   \* entries at or past the tile count that were written
    rangeDone,     \* identifyTileRanges threads that have run
    kvAccess,      \* element reads and writes of the instance buffers so far
    trace,         \* the stages issued, in order
    renderArgs,    \* arguments of each FORWARD::render call
    accum,         \* accum_alpha / n_contrib as the blend stage left them
    bwdCalls,      \* backward calls made against this forward
    bwdArgs,       \* arguments of the last two backward calls
    bwdState,      \* the three views the last backward call rebuilt
    msbN, msbBit,  \* an argument of getHigherMsb and what it returned for it
    keyArgs, keyOut,  \* two instances (grid, tile, depth bits) and their keys
    orig_points, viewmatrix, projmatrix,  \* the inputs of markVisible
    present,       \* the mask: the entries written so far and their values
    presentWrites, \* per entry of the mask: how often it was written
    visRun         \* checkFrustum threads that have run

vars == << pc, P, width, height, config, geomState, imgState, binningState,
           radii, means2D, depths, tiles_touched, point_offsets, num_rendered,
           point_list_keys_unsorted, point_list_unsorted, written, strayWrites,
           dupDone, point_list_keys, point_list, ranges, strayRanges, rangeDone,
           kvAccess, trace, renderArgs, accum, bwdCalls, bwdArgs, bwdState,
           msbN, msbBit, keyArgs, keyOut, orig_points, viewmatrix, projmatrix,
           present, presentWrites, visRun >>

\* the state of the stand-alone functions, which forward and backward leave alone
msbVars == << msbN, msbBit >>
keyVars == << keyArgs, keyOut >>
visibleInputs == << orig_points, viewmatrix, projmatrix >>
visibleVars == << visibleInputs, present, presentWrites, visRun >>
functionVars == << msbVars, keyVars, visibleVars >>
NoMsb == msbN = Word32(0) /\ msbBit = 0
Empty == [i \in {} |-> 0]
NoKeys == keyArgs = << >> /\ keyOut = << >>
NoVisible ==
    /\ orig_points = Empty /\ viewmatrix = 0 /\ projmatrix = 0
    /\ present = Empty /\ presentWrites = Empty /\ visRun = {}

inputVars == << P, width, height, config, functionVars >>
geomVars == << radii, means2D, depths, tiles_touched, point_offsets >>
unsortedVars == << point_list_keys_unsorted, point_list_unsorted, written,
                   strayWrites, dupDone >>
sortedVars == << point_list_keys, point_list >>
rangeVars == << ranges, strayRanges, rangeDone >>
bwdVars == << bwdCalls, bwdArgs, bwdState >>

tile_grid == TileGrid(width, height)
NumTiles == tile_grid.x * tile_grid.y
NoView == [size |-> 0, subs |-> << >>]

\* nothing of forward has run
NoForward ==
    /\ geomState = NoView /\ imgState = NoView /\ binningState = NoView
    /\ radii = Empty /\ means2D = Empty /\ depths = Empty
    /\ tiles_touched = Empty /\ point_offsets = Empty
    /\ num_rendered = 0
    /\ point_list_keys_unsorted = Empty /\ point_list_unsorted = Empty
    /\ written = Empty /\ strayWrites = {} /\ dupDone = {}
    /\ point_list_keys = Empty /\ point_list = Empty
    /\ ranges = Empty /\ strayRanges = {} /\ rangeDone = {}
    /\ kvAccess = 0
    /\ trace = << >>
    /\ renderArgs = << >>
    /\ accum = << >>
    /\ bwdCalls = 0 /\ bwdArgs = << >> /\ bwdState = << >>

Init ==
    /\ pc = "start"
    /\ P \in 0..MaxP
    /\ width \in Widths
    /\ height \in Heights
    /\ config \in Configs
    /\ NoForward
    /\ NoMsb /\ NoKeys /\ NoVisible

(* ------------------------------ forward ------------------------------- *)
\* chunk_size = required<GeometryState>(P); geometryBuffer(chunk_size); fromChunk
ForwardGeometryView(n) ==
    [size |-> RequiredGeometry(n), subs |-> GeometryFromChunk(0, n).subs]
ForwardImageView(n) ==
    [size |-> RequiredImage(n), subs |-> ImageFromChunk(0, n).subs]
ForwardBinningView(n) ==
    [size |-> RequiredBinning(n), subs |-> BinningFromChunk(0, n).subs]

\* variant: forward goes from the Geometry State straight to the check
GeometryBufferThenCheck ==
    /\ pc = "start"
    /\ geomState' = ForwardGeometryView(P)
    /\ trace' = Append(trace, "geometryBuffer")
    /\ pc' = "check"
    /\ UNCHANGED << inputVars, imgState, binningState, geomVars, num_rendered,
                    unsortedVars, sortedVars, rangeVars, kvAccess, renderArgs,
                    accum, bwdVars >>

GeometryBuffer ==
    /\ pc = "start"
    /\ geomState' = ForwardGeometryView(P)
    /\ trace' = Append(trace, "geometryBuffer")
    /\ pc' = "image"
    /\ UNCHANGED << inputVars, imgState, binningState, geomVars, num_rendered,
                    unsortedVars, sortedVars, rangeVars, kvAccess, renderArgs,
                    accum, bwdVars >>

ImageBuffer ==
    /\ pc = "image"
    /\ imgState' = ForwardImageView(width * height)
    /\ ranges' = [t \in 0..(NumTiles - 1) |-> UninitRange]
    /\ trace' = Append(trace, "imageBuffer")
    /\ pc' = "check"
    /\ UNCHANGED << inputVars, geomState, binningState, geomVars, num_rendered,
                    unsortedVars, sortedVars, strayRanges, rangeDone, kvAccess,
                    renderArgs, accum, bwdVars >>

\* variant: the null test on colors_precomp inverted
ConfigThrowsInverted(cfg) == cfg[1] # 3 /\ cfg[2]

\* if (NUM_CHANNELS != 3 && colors_precomp == nullptr) throw
ConfigThrows(cfg) == cfg[1] # 3 /\ ~cfg[2]

ConfigCheck ==
    /\ pc = "check"
    /\ pc' = IF ConfigThrows(config) THEN "thrown" ELSE "preprocess"
    /\ UNCHANGED << inputVars, geomState, imgState, binningState, geomVars,
                    num_rendered, unsortedVars, sortedVars, rangeVars, kvAccess,
                    trace, renderArgs, accum, bwdVars >>

\* what the projection stage reports for one primitive
Culled == [visible |-> FALSE, xy |-> [x |-> 0, y |-> 0],
           depth |-> [neg |-> FALSE, mag |-> 1]]
ProjOutputs ==
    {Culled} \cup { [visible |-> TRUE, xy |-> p, depth |-> d] : p \in Points, d \in Floats }
ProjRadii == { 1 }

\* radius and tiles_touched of a projected primitive: both 0 unless it is
\* visible and its clamped rectangle is not empty
ProjRadius(o, r, grid) ==
    IF o.visible /\ RectArea(GetRect(o.xy, r, grid)) > 0 THEN r ELSE 0
ProjTouched(o, r, grid) ==
    IF o.visible THEN RectArea(GetRect(o.xy, r, grid)) ELSE 0

Preprocess ==
    /\ pc = "preprocess"
    /\ \E out \in [0..(P - 1) -> ProjOutputs] : \E r \in ProjRadii :
         /\ radii' = [i \in 0..(P - 1) |-> ProjRadius(out[i], r, tile_grid)]
         /\ tiles_touched' = [i \in 0..(P - 1) |-> ProjTouched(out[i], r, tile_grid)]
         /\ means2D' = [i \in 0..(P - 1) |->
                          IF ProjRadius(out[i], r, tile_grid) > 0
                          THEN out[i].xy ELSE Culled.xy]
         /\ depths' = [i \in 0..(P - 1) |->
                          IF ProjRadius(out[i], r, tile_grid) > 0
                          THEN out[i].depth ELSE Culled.depth]
    /\ trace' = Append(trace, "FORWARD::preprocess")
    /\ pc' = "scan"
    /\ UNCHANGED << inputVars, geomState, imgState, binningState, point_offsets,
                    num_rendered, unsortedVars, sortedVars, rangeVars, kvAccess,
                    renderArgs, accum, bwdVars >>

Scan ==
    /\ pc = "scan"
    /\ point_offsets' = InclusiveSum(tiles_touched, P)
    /\ trace' = Append(trace, "InclusiveSum")
    /\ pc' = "readback"
    /\ UNCHANGED << inputVars, geomState, imgState, binningState, radii, means2D,
                    depths, tiles_touched, num_rendered, unsortedVars, sortedVars,
                    rangeVars, kvAccess, renderArgs, accum, bwdVars >>

\* cudaMemcpy(&num_rendered, geomState.point_offsets + P - 1, sizeof(int), ...):
\* the element index read, and whether it lies in point_offsets[0, P)
ReadbackIndex(n) == n - 1
ReadbackInBuffer(n) == ReadbackIndex(n) \in 0..(n - 1)
\* values a read outside the buffer may yield
GarbageInts == (-1)..MaxGarbage

Readback ==
    /\ pc = "readback"
    /\ IF ReadbackInBuffer(P)
       THEN num_rendered' = point_offsets[ReadbackIndex(P)]
       ELSE num_rendered' \in GarbageInts
    /\ trace' = Append(trace, "readback")
    /\ pc' = "binning"
    /\ UNCHANGED << inputVars, geomState, imgState, binningState, geomVars,
                    unsortedVars, sortedVars, rangeVars, kvAccess, renderArgs,
                    accum, bwdVars >>

\* required<BinningState>(num_rendered) takes a size_t: a negative count asks
\* for more than any resizer can give and the call ends in its failure
BinningBuffer ==
    /\ pc = "binning"
    /\ IF num_rendered < 0
       THEN /\ pc' = "failed"
            /\ UNCHANGED << binningState, point_list_keys_unsorted,
                            point_list_unsorted, written >>
       ELSE /\ pc' = "launch"
            /\ binningState' = ForwardBinningView(num_rendered)
            /\ point_list_keys_unsorted' = [s \in 0..(num_rendered - 1) |-> UninitKey]
            /\ point_list_unsorted' = [s \in 0..(num_rendered - 1) |-> -1]
            /\ written' = [s \in 0..(num_rendered - 1) |-> 0]
    /\ trace' = Append(trace, "binningBuffer")
    /\ UNCHANGED << inputVars, geomState, imgState, geomVars, num_rendered,
                    strayWrites, dupDone, sortedVars, rangeVars, kvAccess,
                    renderArgs, accum, bwdVars >>

\* duplicateWithKeys<<<(P + 255) / 256, 256>>>
LaunchDuplicate ==
    /\ pc = "launch"
    /\ trace' = Append(trace, "duplicateWithKeys")
    /\ pc' = "dup"
    /\ UNCHANGED << inputVars, geomState, imgState, binningState, geomVars,
                    num_rendered, unsortedVars, sortedVars, rangeVars, kvAccess,
                    renderArgs, accum, bwdVars >>

\* variant: a thread starting at its own prefix-sum entry
StartOffsetOwn(offsets, idx) == offsets[idx]

\* uint32_t off = (idx == 0) ? 0 : offsets[idx - 1]
StartOffset(offsets, idx) == IF idx = 0 THEN 0 ELSE offsets[idx - 1]

\* uint64_t key = y * grid.x + x
TileId(x, y, grid) == y * grid.x + x

\* the writes of thread idx, in loop order: <<slot, key, value>>
RECURSIVE RectWrites(_, _, _, _, _, _)
RectWrites(idx, rect, x, y, off, grid) ==
    IF y >= rect.max.y THEN << >>
    ELSE IF x >= rect.max.x THEN RectWrites(idx, rect, rect.min.x, y + 1, off, grid)
    ELSE << [slot |-> off, key |-> PackKey(TileId(x, y, grid), FloatBits(depths[idx])),
             value |-> idx] >>
         \o RectWrites(idx, rect, x + 1, y, off + 1, grid)

ThreadWrites(idx) ==
    IF radii[idx] > 0
    THEN LET rect == GetRect(means2D[idx], radii[idx], tile_grid)
         IN  RectWrites(idx, rect, rect.min.x, rect.min.y,
                        StartOffset(point_offsets, idx), tile_grid)
    ELSE << >>

\* a buffer after the writes ws, the last write to a slot staying
RECURSIVE ApplyWrites(_, _, _)
ApplyWrites(buf, ws, fld) ==
    IF ws = << >> THEN buf
    ELSE ApplyWrites(IF ws[1].slot \in DOMAIN buf
                     THEN [buf EXCEPT ![ws[1].slot] = ws[1][fld]] ELSE buf,
                     Tail(ws), fld)

SlotsOf(ws) == { ws[k].slot : k \in 1..Len(ws) }
CountSlot(ws, s) == Cardinality({ k \in 1..Len(ws) : ws[k].slot = s })

DuplicateThread(idx) ==
    /\ pc = "dup"
    /\ idx \in (0..(P - 1)) \ dupDone
    /\ LET ws == ThreadWrites(idx)
       IN  /\ point_list_keys_unsorted' = ApplyWrites(point_list_keys_unsorted, ws, "key")
           /\ point_list_unsorted' = ApplyWrites(point_list_unsorted, ws, "value")
           /\ written' = [s \in DOMAIN written |-> written[s] + CountSlot(ws, s)]
           /\ strayWrites' = strayWrites \cup (SlotsOf(ws) \ DOMAIN written)
           /\ kvAccess' = kvAccess + 2 * Len(ws)
    /\ dupDone' = dupDone \cup {idx}
    /\ UNCHANGED << pc, inputVars, geomState, imgState, binningState, geomVars,
                    num_rendered, sortedVars, rangeVars, trace, renderArgs,
                    accum, bwdVars >>

\* int bit = getHigherMsb(tile_grid.x * tile_grid.y)
SortEndBit == 32 + getHigherMsb(Word32(NumTiles))

\* what a never-written element of the unsorted buffers may hold when read
GarbagePairs ==
    { [key |-> [tile |-> t, sgn |-> 0, low |-> 0], value |-> 0] :
        t \in {0, 2 ^ getHigherMsb(Word32(NumTiles))} }
Unwritten == { s \in DOMAIN written : written[s] = 0 }

Sort ==
    /\ pc = "dup"
    /\ dupDone = 0..(P - 1)
    /\ \E g \in [Unwritten -> GarbagePairs] :
         LET in  == [i \in 1..num_rendered |->
                       IF (i - 1) \in Unwritten THEN g[i - 1]
                       ELSE [key |-> point_list_keys_unsorted[i - 1],
                             value |-> point_list_unsorted[i - 1]]]
             out == SortPairs(in, SortEndBit)
         IN  /\ point_list_keys_unsorted' = [s \in 0..(num_rendered - 1) |-> in[s + 1].key]
             /\ point_list_unsorted' = [s \in 0..(num_rendered - 1) |-> in[s + 1].value]
             /\ point_list_keys' = [s \in 0..(num_rendered - 1) |-> out[s + 1].key]
             /\ point_list' = [s \in 0..(num_rendered - 1) |-> out[s + 1].value]
    /\ kvAccess' = kvAccess + 4 * num_rendered
    /\ trace' = Append(trace, "SortPairs")
    /\ pc' = "memset"
    /\ UNCHANGED << inputVars, geomState, imgState, binningState, geomVars,
                    num_rendered, written, strayWrites, dupDone, rangeVars,
                    renderArgs, accum, bwdVars >>

\* variant: the table left as the resizer handed it over
StaleRanges == [t \in 0..(NumTiles - 1) |-> UninitRange]

\* cudaMemset(imgState.ranges, 0, tile_grid.x * tile_grid.y * sizeof(uint2))
ZeroRanges == [t \in 0..(NumTiles - 1) |-> [x |-> 0, y |-> 0]]

Memset ==
    /\ pc = "memset"
    /\ ranges' = ZeroRanges
    /\ trace' = Append(trace, "cudaMemset")
    /\ pc' = "identify"
    /\ UNCHANGED << inputVars, geomState, imgState, binningState, geomVars,
                    num_rendered, unsortedVars, sortedVars, strayRanges, rangeDone,
                    kvAccess, renderArgs, accum, bwdVars >>

\* variant: the resolver launched without the test on num_rendered
LaunchIdentifyAlways ==
    /\ pc = "identify"
    /\ trace' = Append(trace, "identifyTileRanges")
    /\ pc' = IF num_rendered > 0 THEN "ranges" ELSE "render"
    /\ UNCHANGED << inputVars, geomState, imgState, binningState, geomVars,
                    num_rendered, unsortedVars, sortedVars, rangeVars, kvAccess,
                    renderArgs, accum, bwdVars >>

\* if (num_rendered > 0) identifyTileRanges<<<(num_rendered + 255) / 256, 256>>>
LaunchIdentify ==
    /\ pc = "identify"
    /\ IF num_rendered > 0
       THEN /\ trace' = Append(trace, "identifyTileRanges")
            /\ pc' = "ranges"
       ELSE /\ trace' = trace
            /\ pc' = "render"
    /\ UNCHANGED << inputVars, geomState, imgState, binningState, geomVars,
                    num_rendered, unsortedVars, sortedVars, rangeVars, kvAccess,
                    renderArgs, accum, bwdVars >>

\* ranges[t].fld = v, for an entry of the table
SetRange(r, t, fld, v) == IF t \in DOMAIN r THEN [r EXCEPT ![t][fld] = v] ELSE r

\* uint32_t count = idx - ranges[prevtile].x: a local of the thread at a tile
\* boundary, read from the table while other threads may be writing it
IdentifyCount(r, keys, idx) ==
    LET prevtile == TileOf(keys[idx - 1])
    IN  idx - (IF prevtile \in DOMAIN r THEN r[prevtile].x ELSE 0)

\* variant: the thread at a boundary closes the previous range with its count
IdentifyWritesCounted(keys, idx, L) ==
    LET currtile == TileOf(keys[idx])
        first == IF idx = 0
                 THEN << <<currtile, "x", 0>> >>
                 ELSE LET prevtile == TileOf(keys[idx - 1])
                      IN  IF currtile # prevtile
                          THEN << <<prevtile, "y", IdentifyCount(ranges, keys, idx)>>,
                                  <<currtile, "x", idx>> >>
                          ELSE << >>
        last == IF idx = L - 1 THEN << <<currtile, "y", L>> >> ELSE << >>
    IN  first \o last

\* variant: the last thread does not close its tile's range
IdentifyWritesOpenEnd(keys, idx, L) ==
    LET currtile == TileOf(keys[idx])
    IN  IF idx = 0
        THEN << <<currtile, "x", 0>> >>
        ELSE LET prevtile == TileOf(keys[idx - 1])
             IN  IF currtile # prevtile
                 THEN << <<prevtile, "y", idx>>, <<currtile, "x", idx>> >>
                 ELSE << >>

\* the writes of identifyTileRanges thread idx over L keys: <<tile, field, value>>
IdentifyWrites(keys, idx, L) ==
    LET currtile == TileOf(keys[idx])
        first == IF idx = 0
                 THEN << <<currtile, "x", 0>> >>
                 ELSE LET prevtile == TileOf(keys[idx - 1])
                      IN  IF currtile # prevtile
                          THEN << <<prevtile, "y", idx>>, <<currtile, "x", idx>> >>
                          ELSE << >>
        last == IF idx = L - 1 THEN << <<currtile, "y", L>> >> ELSE << >>
    IN  first \o last

RECURSIVE ApplyRangeWrites(_, _)
ApplyRangeWrites(r, ws) ==
    IF ws = << >> THEN r
    ELSE ApplyRangeWrites(SetRange(r, ws[1][1], ws[1][2], ws[1][3]), Tail(ws))

IdentifyThread(idx) ==
    /\ pc = "ranges"
    /\ idx \in (0..(num_rendered - 1)) \ rangeDone
    /\ LET ws == IdentifyWrites(point_list_keys, idx, num_rendered)
       IN  /\ ranges' = ApplyRangeWrites(ranges, ws)
           /\ strayRanges' = strayRanges \cup
                  ({ ws[k][1] : k \in 1..Len(ws) } \ DOMAIN ranges)
    /\ kvAccess' = kvAccess + (IF idx = 0 THEN 1 ELSE 2)
    /\ rangeDone' = rangeDone \cup {idx}
    /\ UNCHANGED << pc, inputVars, geomState, imgState, binningState, geomVars,
                    num_rendered, unsortedVars, sortedVars, trace, renderArgs,
                    accum, bwdVars >>

\* feature_ptr = colors_precomp != nullptr ? colors_precomp : geomState.rgb
FeaturePtr(cfg) == IF cfg[2] THEN "colors_precomp" ELSE "geomState.rgb"

\* the arguments FORWARD::render is called with
RenderArguments ==
    [grid |-> tile_grid, ranges |-> ranges, point_list |-> point_list,
     width |-> width, height |-> height, means2D |-> means2D,
     features |-> FeaturePtr(config)]

\* what the blend stage leaves per pixel is a function of what it was given
BlendAccumulators(args) == << [blended |-> args] >>

Render ==
    /\ \/ pc = "render"
       \/ pc = "ranges" /\ rangeDone = 0..(num_rendered - 1)
    /\ renderArgs' = Append(renderArgs, RenderArguments)
    /\ accum' = BlendAccumulators(RenderArguments)
    /\ trace' = Append(trace, "FORWARD::render")
    /\ pc' = "done"
    /\ UNCHANGED << inputVars, geomState, imgState, binningState, geomVars,
                    num_rendered, unsortedVars, sortedVars, rangeVars, kvAccess,
                    bwdVars >>

(* ------------------------------ backward ------------------------------ *)
\* the three fromChunk calls at the head of backward
BackwardViews(n, r, pixels) ==
    << GeometryFromChunk(0, n).subs, BinningFromChunk(0, r).subs,
       ImageFromChunk(0, pixels).subs >>

\* variant: backward sorting the instance list again before it replays
BackwardStagesResorting == << "SortPairs", "BACKWARD::render", "BACKWARD::preprocess" >>

\* the stages backward issues, in order
BackwardStages == << "BACKWARD::render", "BACKWARD::preprocess" >>

\* variant: an argument that depends on how often backward has run
BackwardRenderArgsCounted(dL_dpix) ==
    [grid |-> tile_grid, ranges |-> ranges, point_list |-> point_list,
     width |-> width, height |-> height, means2D |-> means2D,
     colors |-> FeaturePtr(config), accum |-> accum, dL_dpix |-> dL_dpix + bwdCalls]

\* the arguments BACKWARD::render is called with
BackwardRenderArgs(dL_dpix) ==
    [grid |-> tile_grid, ranges |-> ranges, point_list |-> point_list,
     width |-> width, height |-> height, means2D |-> means2D,
     colors |-> FeaturePtr(config), accum |-> accum, dL_dpix |-> dL_dpix]

\* the arguments BACKWARD::preprocess is called with
BackwardPreprocessArgs == [P |-> P, radii |-> radii]

\* the gradients the two backward stages return are a function of what they get
GradientOutputs(ra, pa) == [of_render |-> ra, of_preprocess |-> pa]

LastTwo(q) == IF Len(q) > 2 THEN SubSeq(q, Len(q) - 1, Len(q)) ELSE q

Backward(dL_dpix) ==
    /\ pc = "done"
    /\ bwdCalls < MaxBackward
    /\ bwdCalls' = bwdCalls + 1
    /\ bwdState' = BackwardViews(P, num_rendered, width * height)
    /\ bwdArgs' = LastTwo(Append(bwdArgs,
                     [render |-> BackwardRenderArgs(dL_dpix),
                      preprocess |-> BackwardPreprocessArgs,
                      dL_dpix |-> dL_dpix,
                      grads |-> GradientOutputs(BackwardRenderArgs(dL_dpix),
                                                BackwardPreprocessArgs)]))
    /\ trace' = trace \o BackwardStages
    /\ UNCHANGED << pc, inputVars, geomState, imgState, binningState, geomVars,
                    num_rendered, unsortedVars, sortedVars, rangeVars, kvAccess,
                    renderArgs, accum >>

(* --------------------------- specification ---------------------------- *)
Next ==
    \/ GeometryBuffer
    \/ ImageBuffer
    \/ ConfigCheck
    \/ Preprocess
    \/ Scan
    \/ Readback
    \/ BinningBuffer
    \/ LaunchDuplicate
    \/ \E idx \in 0..(MaxP - 1) : DuplicateThread(idx)
    \/ Sort
    \/ Memset
    \/ LaunchIdentify
    \/ \E idx \in DOMAIN point_list_keys : IdentifyThread(idx)
    \/ Render
    \/ \E dL_dpix \in PixelGrads : Backward(dL_dpix)

Spec == Init /\ [][Next]_vars

(* ------------------ forward over every image size --------------------- *)
MaxSide == 17
\* forward for one primitive and an image of any width and height >= 1
InitSides ==
    /\ pc = "start"
    /\ P = 1
    /\ width \in 1..MaxSide
    /\ height \in 1..MaxSide
    /\ config = <<3, FALSE>>
    /\ NoForward
    /\ NoMsb /\ NoKeys /\ NoVisible

SpecSides == InitSides /\ [][Next]_vars

(* ----------------------------- markVisible ---------------------------- *)
BlockThreads == 256
Means == { [z |-> 0], [z |-> 2] }
ViewMatrices == { [tz |-> 0], [tz |-> 1] }
ProjMatrices == { [near |-> 0] }

\* view-space depth of a mean under a view matrix, and the frustum test on it
ViewDepth(point, view) == point.z + view.tz
\* the mean of primitive idx; every read the kernel makes has idx < P
MeanAt(points, idx) ==
    IF idx \in DOMAIN points THEN points[idx] ELSE CHOOSE m \in Means : TRUE
in_frustum(idx, points, view, proj) ==
    ViewDepth(MeanAt(points, idx), view) > proj.near

InitVisible ==
    /\ pc = "markVisible"
    /\ P \in 0..MaxP
    /\ width = BLOCK_X /\ height = BLOCK_Y /\ config = <<3, FALSE>>
    /\ NoForward
    /\ NoMsb /\ NoKeys
    /\ orig_points \in [0..(P - 1) -> Means]
    /\ viewmatrix \in ViewMatrices
    /\ projmatrix \in ProjMatrices
    /\ present = Empty
    /\ presentWrites = [i \in 0..(P - 1) |-> 0]
    /\ visRun = {}

\* the threads of the launch <<<(P + 255) / 256, 256>>>
LaunchedThreads(n) == ((n + BlockThreads - 1) \div BlockThreads) * BlockThreads

\* variant: the rank test off by one
RankOutsideInclusive(idx, n) == idx > n

\* if (idx >= P) return
RankOutside(idx, n) == idx >= n

\* checkFrustum<<<(P + 255) / 256, 256>>>(P, means3D, viewmatrix, projmatrix, present)
LaunchCheckFrustum ==
    /\ pc = "markVisible"
    /\ pc' = "checkFrustum"
    /\ UNCHANGED << P, width, height, config, msbVars, keyVars, visibleVars,
                    geomState, imgState, binningState, geomVars, num_rendered,
                    unsortedVars, sortedVars, rangeVars, kvAccess, trace,
                    renderArgs, accum, bwdVars >>

\* one thread of checkFrustum. The threads that return at the rank test have
\* no effect, so among themselves they are taken in rank order.
CheckFrustumThread(idx) ==
    /\ pc = "checkFrustum"
    /\ idx \in (0..(LaunchedThreads(P) - 1)) \ visRun
    /\ idx > P => (idx - 1) \in visRun
    /\ IF RankOutside(idx, P)
       THEN UNCHANGED << present, presentWrites >>
       ELSE /\ present' = [i \in DOMAIN present \cup {idx} |->
                             IF i = idx
                             THEN in_frustum(idx, orig_points, viewmatrix, projmatrix)
                             ELSE present[i]]
            /\ presentWrites' = [i \in DOMAIN presentWrites \cup {idx} |->
                                   IF i = idx
                                   THEN 1 + (IF idx \in DOMAIN presentWrites
                                             THEN presentWrites[idx] ELSE 0)
                                   ELSE presentWrites[i]]
    /\ visRun' = visRun \cup {idx}
    /\ UNCHANGED << pc, P, width, height, config, msbVars, keyVars, visibleInputs,
                    geomState, imgState, binningState, geomVars, num_rendered,
                    unsortedVars, sortedVars, rangeVars, kvAccess, trace,
                    renderArgs, accum, bwdVars >>

NextVisible ==
    \/ LaunchCheckFrustum
    \/ \E idx \in 0..(LaunchedThreads(MaxP) - 1) : CheckFrustumThread(idx)
SpecVisible == InitVisible /\ [][NextVisible]_vars

(* ----------------------- getHigherMsb on its own ---------------------- *)
MaxSmallN == 40
\* arguments: the small numbers, and 2^k - 1, 2^k, 2^k + 1 up to the width
MsbInputs ==
    { Word32(n) : n \in 1..MaxSmallN }
    \cup { Word32(2 ^ k + d) : k \in 2..30, d \in {-1, 0, 1} }
    \cup { Word32(2147483647) }
    \cup { [sgn |-> 1, low |-> l] : l \in {0, 1, 1065353216, 2147483647} }

InitMsb ==
    /\ pc = "msb"
    /\ P = 0 /\ width = BLOCK_X /\ height = BLOCK_Y /\ config = <<3, FALSE>>
    /\ NoForward
    /\ msbN \in MsbInputs
    /\ msbBit = 0
    /\ NoKeys /\ NoVisible

\* bit = getHigherMsb(n)
CallGetHigherMsb ==
    /\ pc = "msb"
    /\ msbBit' = getHigherMsb(msbN)
    /\ pc' = "msbReturned"
    /\ UNCHANGED << P, width, height, config, msbN, keyVars, visibleVars,
                    geomState, imgState,
                    binningState, geomVars, num_rendered, unsortedVars,
                    sortedVars, rangeVars, kvAccess, trace, renderArgs, accum,
                    bwdVars >>

NextMsb == CallGetHigherMsb
SpecMsb == InitMsb /\ [][NextMsb]_vars

(* ---------------------- the key packing on its own -------------------- *)
\* 32-bit patterns of a depth: +0, 1.0, the largest positive pattern, -0, -1.0
\* and all ones
DepthBits ==
    { [sgn |-> 0, low |-> 0], [sgn |-> 0, low |-> 1065353216],
      [sgn |-> 0, low |-> 2147483647], [sgn |-> 1, low |-> 0],
      [sgn |-> 1, low |-> 1065353216], [sgn |-> 1, low |-> 2147483647] }

\* an instance: a tile (x, y) of a grid that is gx tiles wide, and depth bits
KeyInstances(gx) ==
    [grid : {[x |-> gx, y |-> MaxGrid]}, x : 0..(gx - 1), y : 0..(MaxGrid - 1),
     d : DepthBits]

InitKey ==
    /\ pc = "key"
    /\ P = 0 /\ width = BLOCK_X /\ height = BLOCK_Y /\ config = <<3, FALSE>>
    /\ NoForward
    /\ NoMsb /\ NoVisible
    /\ \E gx \in 1..MaxGrid : keyArgs \in KeyInstances(gx) \X KeyInstances(gx)
    /\ keyOut = << >>

\* the key statements of duplicateWithKeys for the two instances
PackKeys ==
    /\ pc = "key"
    /\ keyOut' = [i \in 1..2 |->
                    PackKey(TileId(keyArgs[i].x, keyArgs[i].y, keyArgs[i].grid),
                            keyArgs[i].d)]
    /\ pc' = "keyPacked"
    /\ UNCHANGED << P, width, height, config, msbVars, keyArgs, visibleVars,
                    geomState, imgState, binningState, geomVars, num_rendered, unsortedVars,
                    sortedVars, rangeVars, kvAccess, trace, renderArgs, accum,
                    bwdVars >>

NextKey == PackKeys
SpecKey == InitKey /\ [][NextKey]_vars

(* ------------------------------ claims -------------------------------- *)
R == num_rendered
Tiles == 0..(NumTiles - 1)
AfterReadback == pc \in {"binning", "launch", "dup", "memset", "identify",
                         "ranges", "render", "done", "failed"}
AfterSort == pc \in {"memset", "identify", "ranges", "render", "done"}
AfterExpansionStart == pc \in {"dup", "memset", "identify", "ranges", "render", "done"}

\* sum of the tile-touch-counts of all P primitives
TotalTouched == SumTo(tiles_touched, P - 1)

\* the float whose bit pattern is the low half of a key, as a number
DepthOfKey(key) ==
    LET m == IF key.low = 1065353216 THEN 1
             ELSE IF key.low = 1073741824 THEN 2 ELSE 0
    IN  IF key.sgn = 1 THEN -m ELSE m

\* the list is an instance list sorted by tile: tiles of the grid, non-decreasing
SortedInstanceList ==
    /\ \A i \in 0..(R - 1) : TileOf(point_list_keys[i]) \in Tiles
    /\ \A i \in 1..(R - 1) :
         TileOf(point_list_keys[i - 1]) <= TileOf(point_list_keys[i])

\* C1: after forward completes, for a sorted instance list of length R, every
\* tile's range has start <= end, the non-empty ranges partition [0, R), every
\* index of a tile's range carries that tile, and a tile without instances has
\* start = end; no entry outside the grid's table is written.
C1_TileRangesPartition ==
    (pc = "done" /\ SortedInstanceList) =>
        /\ strayRanges = {}
        /\ \A t \in Tiles : ranges[t].x <= ranges[t].y
        /\ \A i \in 0..(R - 1) :
             Cardinality({ t \in Tiles : ranges[t].x <= i /\ i < ranges[t].y }) = 1
        /\ \A t \in Tiles : \A i \in ranges[t].x..(ranges[t].y - 1) :
             i \in 0..(R - 1) /\ TileOf(point_list_keys[i]) = t
        /\ \A t \in Tiles :
             (\A i \in 0..(R - 1) : TileOf(point_list_keys[i]) # t)
                => ranges[t].x = ranges[t].y

\* forward completed with two non-empty tile ranges and an empty one
C1_Witness ==
    /\ pc = "done" /\ SortedInstanceList /\ R >= 3
    /\ Cardinality({ t \in Tiles : ranges[t].x < ranges[t].y }) >= 2
    /\ \E t \in Tiles : ranges[t].x = ranges[t].y

\* how often a (key, value) pair occurs among the first n elements
Occurrences(keys, values, n, k, v) ==
    Cardinality({ i \in 0..(n - 1) : keys[i] = k /\ values[i] = v })

\* C2: the sorted list forward produces has a non-decreasing tile field over the
\* whole list, a non-decreasing depth within each tile provided all depths are
\* non-negative, and holds the unsorted pairs, permuted.
C2_SortedByTileThenDepth ==
    AfterSort =>
        /\ \A i \in 1..(R - 1) :
             TileOf(point_list_keys[i - 1]) <= TileOf(point_list_keys[i])
        /\ (\A p \in 0..(P - 1) : FloatValue(depths[p]) >= 0) =>
             \A i \in 1..(R - 1) :
                TileOf(point_list_keys[i - 1]) = TileOf(point_list_keys[i])
                   => DepthOfKey(point_list_keys[i - 1]) <= DepthOfKey(point_list_keys[i])
        /\ \A i \in 0..(R - 1) :
             Occurrences(point_list_keys, point_list, R,
                         point_list_keys[i], point_list[i])
               = Occurrences(point_list_keys_unsorted, point_list_unsorted, R,
                             point_list_keys[i], point_list[i])

\* the same, for the calls whose readback stays inside point_offsets
C2_SortedWhenReadbackInBuffer == ReadbackInBuffer(P) => C2_SortedByTileThenDepth

\* C3: the R forward reads back equals the sum of the tile-touch-counts and the
\* last entry of the inclusive prefix sum, and the readback stays inside the
\* point-offsets buffer, for every P >= 0.
C3_ReadbackIsTotal ==
    AfterReadback =>
        /\ ReadbackInBuffer(P)
        /\ R = TotalTouched
        /\ P >= 1 => R = point_offsets[P - 1]

\* the same, for P >= 1
C3_ReadbackIsTotalForSomePrimitive == P >= 1 => C3_ReadbackIsTotal

\* the slots [offsets[i-1], offsets[i]) of primitive i, start 0 for i = 0
Interval(i) == StartOffset(point_offsets, i)..(point_offsets[i] - 1)

\* the tile indices of primitive i's clamped rectangle
RectTileIds(i) ==
    LET rect == GetRect(means2D[i], radii[i], tile_grid)
    IN  { y * tile_grid.x + x : x \in rect.min.x..(rect.max.x - 1),
                                y \in rect.min.y..(rect.max.y - 1) }

\* C4: with touch counts equal to the rectangle area for radius > 0 and 0
\* otherwise, in every interleaving of the expansion threads a thread that has
\* run has written exactly its slots [offsets[i-1], offsets[i]), one
\* (key, value = i) pair per tile of its rectangle; no slot is written twice,
\* none outside the buffer, and once all threads have run every slot below the
\* final prefix sum has been written exactly once.
C4_ExactExpansion ==
    AfterExpansionStart =>
        /\ strayWrites = {}
        /\ \A s \in DOMAIN written :
             /\ written[s] <= 1
             /\ written[s] = Cardinality({ i \in dupDone : s \in Interval(i) })
        /\ \A i \in dupDone :
             /\ radii[i] <= 0 => Interval(i) = {}
             /\ radii[i] > 0 =>
                  /\ Interval(i) \subseteq DOMAIN written
                  /\ Cardinality(Interval(i)) = Cardinality(RectTileIds(i))
                  /\ { TileOf(point_list_keys_unsorted[s]) : s \in Interval(i) }
                       = RectTileIds(i)
                  /\ \A s \in Interval(i) :
                       /\ point_list_unsorted[s] = i
                       /\ point_list_keys_unsorted[s].sgn = FloatBits(depths[i]).sgn
                       /\ point_list_keys_unsorted[s].low = FloatBits(depths[i]).low
        /\ dupDone = 0..(P - 1) =>
             \A s \in 0..(TotalTouched - 1) : s \in DOMAIN written /\ written[s] = 1

\* both threads of a two-primitive expansion have run, one over two tiles
C4_Witness ==
    /\ pc = "dup" /\ P = 2 /\ dupDone = {0, 1}
    /\ radii[0] > 0 /\ radii[1] > 0
    /\ tiles_touched[0] = 2 /\ R = 3

\* C5: a primitive with radius <= 0 contributes no instance: after forward its
\* index is nowhere in the sorted primitive-index list nor in any tile's range,
\* and every value of the sorted list at an index in [0, R) is the index of a
\* primitive with radius > 0.
C5_OnlyVisibleInstances ==
    pc = "done" =>
        /\ \A s \in 0..(R - 1) :
             point_list[s] \in 0..(P - 1) /\ radii[point_list[s]] > 0
        /\ \A i \in 0..(P - 1) : radii[i] <= 0 =>
             /\ \A s \in 0..(R - 1) : point_list[s] # i
             /\ \A t \in Tiles : \A s \in ranges[t].x..(ranges[t].y - 1) :
                  s \in 0..(R - 1) => point_list[s] # i

\* the same, for the calls whose readback stays inside point_offsets
C5_OnlyVisibleWhenReadbackInBuffer == ReadbackInBuffer(P) => C5_OnlyVisibleInstances

DeviceStages == { "FORWARD::preprocess", "InclusiveSum", "readback",
                  "duplicateWithKeys", "SortPairs", "cudaMemset",
                  "identifyTileRanges", "FORWARD::render" }
Issued(stage) == Cardinality({ k \in 1..Len(trace) : trace[k] = stage })

\* C6: with R = 0 forward is no error: it does not fail, and when it has
\* returned the range table holds [0, 0) for every tile, the resolver was not
\* launched and wrote nothing, no element of the instance buffers was read or
\* written, and the blend stage was invoked exactly once, with that table.
C6_EmptyRender ==
    (AfterReadback /\ R = 0) =>
        /\ pc # "failed"
        /\ kvAccess = 0
        /\ strayWrites = {} /\ strayRanges = {} /\ rangeDone = {}
        /\ Issued("identifyTileRanges") = 0
        /\ pc = "done" =>
             /\ \A t \in Tiles : ranges[t] = [x |-> 0, y |-> 0]
             /\ DOMAIN ranges = Tiles
             /\ Issued("FORWARD::render") = 1
             /\ Len(renderArgs) = 1
             /\ renderArgs[1].ranges = ranges

\* forward returned 0 for primitives that are all culled
C6_Witness == pc = "done" /\ R = 0 /\ P = MaxP /\ Len(renderArgs) = 1

\* C7: with a channel count other than 3 and no precomputed colors forward
\* ends in the configuration error before any device stage is issued: it never
\* gets past the check, and no R is returned.
C7_ConfigErrorFirst ==
    (config[1] # 3 /\ ~config[2]) =>
        /\ pc \in {"start", "image", "check", "thrown"}
        /\ \A k \in 1..Len(trace) : trace[k] \notin DeviceStages
        /\ renderArgs = << >>
        /\ R = 0 /\ DOMAIN point_offsets = {} /\ DOMAIN point_list = {}

\* the configuration error was raised
C7_Witness == pc = "thrown" /\ config[1] # 3 /\ ~config[2] /\ P > 0

\* C8: a backward call rebuilds the three views from the buffers, issues the
\* backward blend stage and then the backward projection stage, once each and
\* nothing else (no scan, expansion, sort, zero-fill, range resolution or
\* resizer call), and leaves the instance lists, the range table, the image
\* accumulators and every other forward buffer as they were.
C8_BackwardReplaysOnly ==
    [][ bwdCalls' # bwdCalls =>
          /\ bwdCalls' = bwdCalls + 1
          /\ trace' = trace \o << "BACKWARD::render", "BACKWARD::preprocess" >>
          /\ bwdState' = << geomState.subs, binningState.subs, imgState.subs >>
          /\ UNCHANGED << point_list_keys, point_list, point_list_keys_unsorted,
                          point_list_unsorted, ranges, strayRanges, accum,
                          geomState, binningState, imgState, geomVars,
                          num_rendered, written, strayWrites, kvAccess,
                          renderArgs, pc >> ]_vars

\* a backward call was made against a forward that rendered instances
C8_Witness == bwdCalls >= 1 /\ R >= 2 /\ Len(trace) >= 2
              /\ trace[Len(trace)] = "BACKWARD::preprocess"

ViewWellFormed(v) ==
    \A k \in 1..Len(v.subs) :
        /\ v.subs[k].ptr >= 0
        /\ v.subs[k].ptr % 128 = 0
        /\ v.subs[k].ptr + v.subs[k].size <= v.size
        /\ k < Len(v.subs) => v.subs[k].ptr + v.subs[k].size <= v.subs[k + 1].ptr

PipelineStages == { "FORWARD::preprocess", "InclusiveSum", "readback",
                    "binningBuffer", "duplicateWithKeys", "SortPairs",
                    "cudaMemset", "identifyTileRanges", "FORWARD::render" }
IsPipelineStage(s) == s \in PipelineStages
IssuedPipeline == SelectSeq(trace, IsPipelineStage)
OrderedPipeline(r) ==
    << "FORWARD::preprocess", "InclusiveSum", "readback", "binningBuffer",
       "duplicateWithKeys", "SortPairs", "cudaMemset" >>
    \o (IF r > 0 THEN << "identifyTileRanges" >> ELSE << >>)
    \o << "FORWARD::render" >>
IsPrefix(s, t) == Len(s) <= Len(t) /\ s = SubSeq(t, 1, Len(s))

\* C12: in a forward call that passes the configuration check the stages are
\* issued at most once each and only in the order projection, prefix sum,
\* readback of R, Binning State sizing, expansion, sort, zero-fill, resolver
\* (only if R > 0), blend: what has been issued is always a prefix of that
\* order and is all of it once forward has returned; no kernel thread runs
\* before its launch, and the Binning State is sized only after the readback.
C12_StageOrder ==
    /\ pc \in {"start", "image", "check", "thrown"} => IssuedPipeline = << >>
    /\ IsPrefix(IssuedPipeline, OrderedPipeline(IF AfterReadback THEN R ELSE 1))
    /\ pc = "done" => IssuedPipeline = OrderedPipeline(R)
    /\ binningState # NoView =>
         Issued("readback") = 1 /\ Issued("binningBuffer") = 1
    /\ dupDone # {} => Issued("duplicateWithKeys") = 1
    /\ rangeDone # {} =>
         Issued("cudaMemset") = 1 /\ Issued("identifyTileRanges") = 1
    /\ renderArgs # << >> => Issued("FORWARD::render") = 1

\* forward returned after running all nine stages, the resolver included
C12_Witness ==
    /\ pc = "done" /\ R > 0 /\ bwdCalls = 0
    /\ Len(IssuedPipeline) = 9 /\ rangeDone = 0..(R - 1)

\* positions in the trace at which a stage was issued
PositionsOf(stage) == { k \in 1..Len(trace) : trace[k] = stage }
IssuedBefore(a, b) ==
    \A k \in PositionsOf(b) : \E j \in PositionsOf(a) : j < k

\* C13 as stated: the image resizer is called after the zero-fill (and, when
\* R > 0, the resolver) and before the blend stage.
C13_ImageStateAfterResolver ==
    /\ IssuedBefore("cudaMemset", "imageBuffer")
    /\ (AfterReadback /\ R > 0) =>
         IssuedBefore("identifyTileRanges", "imageBuffer")
    /\ IssuedBefore("imageBuffer", "FORWARD::render")

\* C13, amended: the image resizer is called once, directly after the Geometry
\* State resizer and before the configuration check, so before projection,
\* the zero-fill, the resolver and the blend stage; the range table that the
\* zero-fill and the resolver write lies in the Image State obtained by then.
C13_ImageStateBeforeProjection ==
    /\ Issued("imageBuffer") <= 1
    /\ pc \notin {"start", "image"} =>
         /\ Len(trace) >= 2
         /\ trace[1] = "geometryBuffer" /\ trace[2] = "imageBuffer"
         /\ imgState = ForwardImageView(width * height)
    /\ pc \in {"start", "image"} => imgState = NoView
    /\ \A s \in PipelineStages : IssuedBefore("imageBuffer", s)
    /\ (Issued("cudaMemset") = 1 \/ rangeDone # {}) =>
         /\ imgState # NoView
         /\ DOMAIN ranges = Tiles

\* the zero-fill and the resolver have run on the table of an Image State
\* that was obtained before projection
C13_Witness ==
    /\ pc = "done" /\ R > 0 /\ rangeDone = 0..(R - 1)
    /\ PositionsOf("imageBuffer") = {2}
    /\ PositionsOf("cudaMemset") # {}

\* the resolver threads that write field fld of range[t]
WritersOf(t, fld) ==
    { idx \in 0..(R - 1) :
        LET ws == IdentifyWrites(point_list_keys, idx, R)
        IN  \E k \in 1..Len(ws) : ws[k][1] = t /\ ws[k][2] = fld }

\* the range of tile t as the sorted list alone determines it
IndicesOf(t) == { i \in 0..(R - 1) : TileOf(point_list_keys[i]) = t }
ExpectedRange(t) ==
    IF IndicesOf(t) = {} THEN [x |-> 0, y |-> 0]
    ELSE [x |-> CHOOSE i \in IndicesOf(t) : \A j \in IndicesOf(t) : i <= j,
          y |-> 1 + CHOOSE i \in IndicesOf(t) : \A j \in IndicesOf(t) : j <= i]

\* a boundary thread has run before the thread that writes the start it reads
RacyReadSawZeroFill ==
    \E idx \in rangeDone \ {0} :
        LET prevtile == TileOf(point_list_keys[idx - 1])
        IN  /\ prevtile # TileOf(point_list_keys[idx])
            /\ ExpectedRange(prevtile).x > 0
            /\ ExpectedRange(prevtile).x \notin rangeDone
            /\ IdentifyCount(ZeroRanges, point_list_keys, idx) #
                 idx - ExpectedRange(prevtile).x

\* C16: on a zero-filled table and a list sorted by tile, every field of every
\* range is written by at most one resolver thread; in every interleaving a
\* field holds the zero-fill value until its writer has run and from then on
\* the value the sorted list alone determines, so the final table is the same
\* for every schedule and does not depend on what the count read saw.
C16_ResolverScheduleIndependent ==
    (pc \in {"ranges", "done"} /\ R > 0 /\ SortedInstanceList) =>
        /\ \A t \in Tiles, fld \in {"x", "y"} :
             /\ Cardinality(WritersOf(t, fld)) <= 1
             /\ ranges[t][fld] =
                  IF WritersOf(t, fld) # {} /\ WritersOf(t, fld) \subseteq rangeDone
                  THEN ExpectedRange(t)[fld] ELSE 0
        /\ pc = "done" => ranges = [t \in Tiles |-> ExpectedRange(t)]

\* resolver threads are running and a boundary thread has run before the thread
\* that writes the start it read
C16_Witness ==
    /\ pc = "ranges" /\ R >= 3 /\ SortedInstanceList
    /\ RacyReadSawZeroFill

\* 2^k <= n and n < 2^k for an unsigned 32-bit n, 0 <= k <= 32
PowLeq(k, n) ==
    IF k >= 32 THEN FALSE
    ELSE IF k = 31 THEN n.sgn = 1
    ELSE n.sgn = 1 \/ n.low >= 2 ^ k
LessPow(n, k) == ~PowLeq(k, n)

\* tile indices below a tile count n: all of them for a small n, else samples
TilesBelow(n) ==
    IF n <= MaxSmallN THEN 0..(n - 1)
    ELSE {0, 1, n \div 2, n - 2, n - 1}
DepthPatterns ==
    { [sgn |-> 0, low |-> 0], [sgn |-> 0, low |-> 1065353216],
      [sgn |-> 0, low |-> 2147483647], [sgn |-> 1, low |-> 0],
      [sgn |-> 1, low |-> 2147483647] }
KeysBelow(n) ==
    { [tile |-> t, sgn |-> d.sgn, low |-> d.low] :
        t \in {0, n \div 2, n - 1}, d \in DepthPatterns }

\* C14: for an unsigned 32-bit n >= 1 getHigherMsb returns b in 1..32 with
\* 2^(b-1) <= n < 2^b; so for a tile count n every tile index below n is
\* unchanged by keeping its low b bits, and two keys with such tiles compare
\* on their low 32 + b bits exactly as they compare on all 64.
C14_HighestSetBit ==
    pc = "msbReturned" =>
        /\ msbBit \in 1..32
        /\ PowLeq(msbBit - 1, msbN) /\ LessPow(msbN, msbBit)
        /\ (msbN.sgn = 0 /\ msbBit <= 30) =>
             /\ \A t \in TilesBelow(msbN.low) : t % (2 ^ msbBit) = t
             /\ \A a, b \in KeysBelow(msbN.low) :
                  /\ KeyBits(a, 32 + msbBit) = a
                  /\ KeyLeq(KeyBits(a, 32 + msbBit), KeyBits(b, 32 + msbBit))
                       <=> KeyLeq(a, b)

\* getHigherMsb has returned for an argument with bit 31 set
C14_Witness == pc = "msbReturned" /\ msbN.sgn = 1 /\ msbBit = 32

\* a < b as unsigned 64-bit numbers
KeyLess(a, b) == KeyLeq(a, b) /\ a # b

\* C15: the key emitted for tile (x, y) and depth pattern d has the high 32
\* bits y * grid.x + x and the low 32 bits d, key >> 32 gives that tile index
\* back, and for two instances with non-negative depths key1 < key2 exactly
\* when (tile1, d1) is lexicographically smaller than (tile2, d2).
C15_KeyPacking ==
    pc = "keyPacked" =>
        LET tile(i) == keyArgs[i].y * keyArgs[i].grid.x + keyArgs[i].x
            d(i) == keyArgs[i].d
        IN  /\ \A i \in 1..2 :
                 /\ keyOut[i].tile = tile(i)
                 /\ [sgn |-> keyOut[i].sgn, low |-> keyOut[i].low] = d(i)
                 /\ TileOf(keyOut[i]) = tile(i)
            /\ (d(1).sgn = 0 /\ d(2).sgn = 0) =>
                 (KeyLess(keyOut[1], keyOut[2]) <=>
                    \/ tile(1) < tile(2)
                    \/ tile(1) = tile(2) /\ d(1).low < d(2).low)

\* keys were packed for two instances of different tiles whose depths are
\* ordered the other way round
C15_Witness ==
    /\ pc = "keyPacked"
    /\ TileOf(keyOut[1]) > 0 /\ TileOf(keyOut[1]) < TileOf(keyOut[2])
    /\ keyArgs[1].d.sgn = 0 /\ keyArgs[2].d.sgn = 0
    /\ keyArgs[1].d.low > keyArgs[2].d.low
    /\ KeyLess(keyOut[1], keyOut[2])

\* the ranges sub-buffer of the Image State: the third reservation of fromChunk
RangesSub == imgState.subs[3]

\* C17: for every width >= 1 and height >= 1 the tile count is at most
\* width * height, the element count of the ranges sub-buffer; so the
\* zero-fill of tile-count uint2 entries ends inside that sub-buffer, the
\* table has an entry for every tile of the grid, and every resolver write
\* goes to an entry below the tile count.
C17_RangeTableFits ==
    /\ width >= 1 /\ height >= 1
    /\ NumTiles >= 1 /\ NumTiles <= width * height
    /\ imgState # NoView =>
         /\ RangesSub.size = width * height * 8
         /\ NumTiles * 8 <= RangesSub.size
         /\ RangesSub.ptr + NumTiles * 8 <= imgState.size
         /\ DOMAIN ranges = Tiles
    /\ Issued("cudaMemset") = 1 => \A t \in Tiles : ranges[t] # UninitRange
    /\ strayRanges = {}
    /\ \A idx \in rangeDone :
         LET ws == IdentifyWrites(point_list_keys, idx, R)
         IN  \A k \in 1..Len(ws) : ws[k][1] \in Tiles /\ ws[k][1] * 8 < RangesSub.size

\* the resolver has written the table of a one-pixel-high image that has
\* more than one tile
C17_Witness ==
    /\ pc = "done" /\ R >= 2 /\ rangeDone = 0..(R - 1)
    /\ height = 1 /\ width = MaxSide /\ NumTiles = 2
    /\ \E t \in Tiles : ranges[t].y > ranges[t].x

\* everything forward and backward keep: arenas, buffers, arguments, results
renderState ==
    << geomState, imgState, binningState, geomVars, num_rendered, unsortedVars,
       sortedVars, rangeVars, kvAccess, trace, renderArgs, accum, bwdVars >>

\* C11: markVisible writes only entries of present[0..P-1]; a thread of rank
\* below P writes its own entry once, with the frustum test of its mean, and a
\* thread of rank >= P writes nothing, so when the launch is over each of the P
\* entries was written exactly once; the means, the matrices and the render
\* and gradient state are never modified.
C11_MarkVisibleFrame ==
    /\ [](pc = "checkFrustum" =>
            /\ DOMAIN present = visRun \cap (0..(P - 1))
            /\ DOMAIN presentWrites = 0..(P - 1)
            /\ \A i \in 0..(P - 1) :
                 presentWrites[i] = (IF i \in visRun THEN 1 ELSE 0)
            /\ \A i \in DOMAIN present :
                 present[i] = in_frustum(i, orig_points, viewmatrix, projmatrix)
            /\ visRun = 0..(LaunchedThreads(P) - 1) =>
                 DOMAIN present = 0..(P - 1))
    /\ [][pc = "checkFrustum" =>
            /\ UNCHANGED << P, visibleInputs, renderState >>
            /\ \A idx \in visRun' \ visRun :
                 idx >= P => UNCHANGED << present, presentWrites >>]_vars

\* the whole rounded-up launch has run for P primitives, some inside and some
\* outside the frustum
C11_Witness ==
    /\ pc = "checkFrustum" /\ P = MaxP
    /\ visRun = 0..(BlockThreads - 1)
    /\ \E i, j \in DOMAIN present : present[i] /\ ~present[j]

====
